---- MODULE Spec2Model ----
(***************************************************************************)
(* Model of the BFPO address scraper (src/main.py): the run of             *)
(* BFPOScraperSimple from the page fetch to the written XML document.      *)
(*                                                                         *)
(* A Python str is a sequence of one-character strings, so that prefix     *)
(* tests, case folding, stripping, replacement and integer parsing are     *)
(* computed character by character as the code computes them.  Python's    *)
(* None is the value None below, which is no text.                         *)
(***************************************************************************)
EXTENDS Integers, Sequences, FiniteSets, TLC

\* ------------------------------------------------------------------ bounds

\* Rows (tr elements after the header) of one HTML table.
MaxRows == 2

\* Rows the whole input may hold: a table or spreadsheet is read only when
\* the collection has room for a record of each of its rows.
MaxAddrs == 2

\* ------------------------------------------------------------ Python text

None == <<"None">>

\* Truth value of an Optional[str]: None and "" are false.
Truthy(x) == x # None /\ x # <<>>

LowerChars == <<"a","b","c","d","e","f","g","h","i","j","k","l","m","n","o","p","q","r","s","t","u","v","w","x","y","z">>

UpperChars == <<"A","B","C","D","E","F","G","H","I","J","K","L","M","N","O","P","Q","R","S","T","U","V","W","X","Y","Z">>

Digits == <<"0","1","2","3","4","5","6","7","8","9">>

Whitespace == {" ", "\t", "\n"}

IndexIn(c, s) == CHOOSE i \in 1..Len(s) : s[i] = c

IsIn(c, s) == \E i \in 1..Len(s) : s[i] = c

\* The upper-case letter of each lower-case letter, and the reverse.
ToUpper == [c \in {LowerChars[i] : i \in 1..26} |-> UpperChars[IndexIn(c, LowerChars)]]

ToLower == [c \in {UpperChars[i] : i \in 1..26} |-> LowerChars[IndexIn(c, UpperChars)]]

upper_char(c) == IF c \in DOMAIN ToUpper THEN ToUpper[c] ELSE c

lower_char(c) == IF c \in DOMAIN ToLower THEN ToLower[c] ELSE c

IsLetter(c) == c \in DOMAIN ToUpper \/ c \in DOMAIN ToLower

\* str.upper()
upper(s) == [i \in 1..Len(s) |-> upper_char(s[i])]

\* str.lower()
lower(s) == [i \in 1..Len(s) |-> lower_char(s[i])]

\* str.title(): a letter is upper-cased after a non-letter, lower-cased
\* after a letter.
title(s) ==
    [i \in 1..Len(s) |->
        IF i = 1 \/ ~IsLetter(s[i - 1]) THEN upper_char(s[i]) ELSE lower_char(s[i])]

\* str.startswith(p)
startswith(s, p) == Len(p) <= Len(s) /\ \A j \in 1..Len(p) : s[j] = p[j]

\* sub in s
contains(s, sub) ==
    \E i \in 0..(Len(s) - Len(sub)) : \A j \in 1..Len(sub) : s[i + j] = sub[j]

\* str.strip()
strip(s) ==
    LET keep == {i \in 1..Len(s) : s[i] \notin Whitespace}
        first == CHOOSE i \in keep : \A j \in keep : i <= j
        last == CHOOSE i \in keep : \A j \in keep : j <= i
    IN  IF keep = {} THEN <<>> ELSE SubSeq(s, first, last)

RECURSIVE replace(_, _, _)
\* str.replace(old, new) for a non-empty old: every occurrence, scanning
\* from the left without overlap.
replace(s, old, new) ==
    IF Len(s) < Len(old) THEN s
    ELSE IF startswith(s, old)
         THEN new \o replace(SubSeq(s, Len(old) + 1, Len(s)), old, new)
         ELSE <<Head(s)>> \o replace(Tail(s), old, new)

\* str.isdigit() on ASCII text
isdigit(s) == s # <<>> /\ \A i \in 1..Len(s) : IsIn(s[i], Digits)

RECURSIVE int(_)
\* int(s) for a string of decimal digits (Python integers do not overflow)
int(s) ==
    IF s = <<>> THEN 0
    ELSE 10 * int(SubSeq(s, 1, Len(s) - 1)) + (IndexIn(s[Len(s)], Digits) - 1)

\* ------------------------------------------------- CountryCodeResolver

SPECIAL_CASES ==
    << << <<"H","o","l","l","a","n","d">>, <<"N","L">> >>,
       << <<"U","S","A">>, <<"U","S">> >>,
       << <<"T","u","r","k","e","y">>, <<"T","R">> >>,
       << <<"F","a","l","k","l","a","n","d","s">>, <<"F","K">> >>,
       << <<"A","s","c","e","n","s","i","o","n">>, <<"A","C">> >>,
       << <<"B","r","i","t","i","s","h"," ","I","n","d","i","a","n"," ","O","c","e","a","n"," ","T","e","r","r","i","t","o","r","y">>, <<"I","O">> >>,
       << <<"A","f","r","i","c","a">>, <<"A","F">> >>
    >>

\* key in table / table[key] for a dict written as a sequence of
\* <<key, value>> pairs in insertion order
HasKey(table, key) == \E i \in 1..Len(table) : table[i][1] = key

Lookup(table, key) ==
    table[CHOOSE i \in 1..Len(table) :
            table[i][1] = key /\ \A j \in 1..(i - 1) : table[j][1] # key][2]

\* The ISO 3166-1 catalog that pycountry.countries serves, cut to the
\* entries the country names and codes below reach: <<name, common_name,
\* alpha_2>>, common_name None where the entry has none.
Countries ==
    << << <<"A","f","g","h","a","n","i","s","t","a","n">>, None, <<"A","F">> >>,
       << <<"C","a","n","a","d","a">>, None, <<"C","A">> >>,
       << <<"C","e","n","t","r","a","l"," ","A","f","r","i","c","a","n"," ","R","e","p","u","b","l","i","c">>, None, <<"C","F">> >>,
       << <<"G","e","r","m","a","n","y">>, None, <<"D","E">> >>,
       << <<"E","s","t","o","n","i","a">>, None, <<"E","E">> >>,
       << <<"F","r","a","n","c","e">>, None, <<"F","R">> >>,
       << <<"U","n","i","t","e","d"," ","K","i","n","g","d","o","m">>, None, <<"G","B">> >>,
       << <<"K","o","r","e","a",","," ","R","e","p","u","b","l","i","c"," ","o","f">>, <<"S","o","u","t","h"," ","K","o","r","e","a">>, <<"K","R">> >>,
       << <<"N","e","t","h","e","r","l","a","n","d","s">>, None, <<"N","L">> >>,
       << <<"R","u","s","s","i","a","n"," ","F","e","d","e","r","a","t","i","o","n">>, None, <<"R","U">> >>,
       << <<"S","i","n","g","a","p","o","r","e">>, None, <<"S","G">> >>,
       << <<"S","o","u","t","h"," ","A","f","r","i","c","a">>, None, <<"Z","A">> >>
    >>

\* pycountry.countries.get(name=n): the alpha_2 of the entry whose name is
\* exactly n, else None
countries_get_name(n) ==
    IF \E i \in 1..Len(Countries) : Countries[i][1] = n
    THEN Countries[CHOOSE i \in 1..Len(Countries) : Countries[i][1] = n][3]
    ELSE None

\* pycountry.countries.get(common_name=n)
countries_get_common_name(n) ==
    IF \E i \in 1..Len(Countries) : Countries[i][2] = n
    THEN Countries[CHOOSE i \in 1..Len(Countries) : Countries[i][2] = n][3]
    ELSE None

\* pycountry.countries.search_fuzzy(q)[0].alpha_2, None for LookupError:
\* the query is stripped and lower-cased; an entry one of whose fields
\* equals it ranks above an entry one of whose names contains it, and
\* equal ranks are ordered by alpha_2 (the catalog order).
CountriesLower ==
    [i \in 1..Len(Countries) |->
        [names |-> {lower(Countries[i][1])} \cup
                   (IF Countries[i][2] = None THEN {} ELSE {lower(Countries[i][2])}),
         alpha_2 |-> lower(Countries[i][3])]]

countries_search_fuzzy(q) ==
    LET query == lower(strip(q))
        exact == {i \in 1..Len(Countries) :
                     query \in CountriesLower[i].names \/ query = CountriesLower[i].alpha_2}
        partial == {i \in 1..Len(Countries) :
                       \E f \in CountriesLower[i].names : contains(f, query)}
        First(S) == CHOOSE i \in S : \A j \in S : i <= j
    IN  IF exact # {} THEN Countries[First(exact)][3]
        ELSE IF partial # {} THEN Countries[First(partial)][3]
        ELSE None

\* get_country_code with the fuzzy search tried before SPECIAL_CASES.
get_country_code_fuzzy_first(country_name) ==
    LET by_name == countries_get_name(country_name)
        fuzzy == countries_search_fuzzy(country_name)
    IN  IF ~Truthy(country_name) THEN None
        ELSE IF fuzzy # None THEN fuzzy
        ELSE IF HasKey(SPECIAL_CASES, country_name)
             THEN Lookup(SPECIAL_CASES, country_name)
        ELSE IF by_name # None THEN by_name
        ELSE None

\* CountryCodeResolver.get_country_code
get_country_code(country_name) ==
    LET by_name == countries_get_name(country_name)
        fuzzy == countries_search_fuzzy(country_name)
        variations == << upper(country_name), lower(country_name), title(country_name) >>
        hits == {i \in 1..3 : countries_get_common_name(variations[i]) # None}
    IN  IF ~Truthy(country_name) THEN None
        ELSE IF HasKey(SPECIAL_CASES, country_name)
             THEN Lookup(SPECIAL_CASES, country_name)
        ELSE IF by_name # None THEN by_name
        ELSE IF fuzzy # None THEN fuzzy
        ELSE IF hits # {}
             THEN countries_get_common_name(
                      variations[CHOOSE i \in hits : \A j \in hits : i <= j])
        ELSE None

\* What pycountry.countries.get(alpha_2=c) does for a code c the catalog
\* lacks: it returns None (pycountry 18.12.8 and later) or raises KeyError
\* (earlier releases).
MissingCode == {"returns None", "raises KeyError"}

\* CountryCodeResolver.validate_country_code, on_missing being what the
\* installed pycountry does for a code it lacks: the result of get is not
\* looked at, so only a raised KeyError gives False.
validate_country_code(code, on_missing) ==
    IF ~Truthy(code) \/ Len(code) # 2 THEN FALSE
    ELSE IF \E i \in 1..Len(SPECIAL_CASES) : SPECIAL_CASES[i][2] = code THEN TRUE
    ELSE IF \E i \in 1..Len(Countries) : Countries[i][3] = upper(code) THEN TRUE
    ELSE on_missing = "returns None"

\* --------------------------------------------------- BFPOScraperSimple

BFPO == <<"B","F","P","O">>

BFPO_SP == <<"B","F","P","O"," ">>

ISOLATED_DETACHMENT_POSTCODE == <<"B","F","1"," ","0","A","X">>

\* The sort key of a BfpoNum that is not a string of digits.
NonNumericKey == 999

T_static == <<"s","t","a","t","i","c">>

T_ship == <<"s","h","i","p">>

T_navalparty == <<"n","a","v","a","l","p","a","r","t","y">>

T_operation == <<"o","p","e","r","a","t","i","o","n">>

T_exercise == <<"e","x","e","r","c","i","s","e">>

T_detachment == <<"d","e","t","a","c","h","m","e","n","t">>

T_fcdo == <<"f","c","d","o">>

\* _add_address without the test of the resolved code: CtryCd is set
\* whenever a country is given.
add_address_unchecked_code(addrs, bfpo_num, location, postcode, country, bfpo_type, box_num) ==
    LET num == IF ~startswith(upper(bfpo_num), BFPO) THEN BFPO_SP \o bfpo_num
               ELSE bfpo_num
        a0 == [BfpoNum |-> num, Loc |-> location, Type |-> bfpo_type]
        a1 == IF Truthy(box_num) THEN a0 @@ ("BoxNum" :> box_num) ELSE a0
        a2 == IF Truthy(postcode) THEN a1 @@ ("PstCd" :> postcode) ELSE a1
        a3 == IF Truthy(country)
              THEN a2 @@ ("Ctry" :> country) @@ ("CtryCd" :> get_country_code(country))
              ELSE a2
    IN  Append(addrs, a3)

\* _add_address testing the postcode with "is not None": an empty postcode
\* cell becomes a PstCd field.
add_address_keeps_empty(addrs, bfpo_num, location, postcode, country, bfpo_type, box_num) ==
    LET num == IF ~startswith(upper(bfpo_num), BFPO) THEN BFPO_SP \o bfpo_num
               ELSE bfpo_num
        a0 == [BfpoNum |-> num, Loc |-> location, Type |-> bfpo_type]
        a1 == IF Truthy(box_num) THEN a0 @@ ("BoxNum" :> box_num) ELSE a0
        a2 == IF postcode # None THEN a1 @@ ("PstCd" :> postcode) ELSE a1
        country_code == get_country_code(country)
        a3 == IF Truthy(country)
              THEN IF Truthy(country_code)
                   THEN a2 @@ ("Ctry" :> country) @@ ("CtryCd" :> country_code)
                   ELSE a2 @@ ("Ctry" :> country)
              ELSE a2
    IN  Append(addrs, a3)

\* _add_address: the collection with the record of one row appended.  A
\* record is a function on the keys it holds.
add_address(addrs, bfpo_num, location, postcode, country, bfpo_type, box_num) ==
    LET num == IF ~startswith(upper(bfpo_num), BFPO) THEN BFPO_SP \o bfpo_num
               ELSE bfpo_num
        a0 == [BfpoNum |-> num, Loc |-> location, Type |-> bfpo_type]
        a1 == IF Truthy(box_num) THEN a0 @@ ("BoxNum" :> box_num) ELSE a0
        a2 == IF Truthy(postcode) THEN a1 @@ ("PstCd" :> postcode) ELSE a1
        country_code == get_country_code(country)
        a3 == IF Truthy(country)
              THEN IF Truthy(country_code)
                   THEN a2 @@ ("Ctry" :> country) @@ ("CtryCd" :> country_code)
                   ELSE a2 @@ ("Ctry" :> country)
              ELSE a2
    IN  Append(addrs, a3)

\* _parse_table_rows: the tr elements after the header, each as its cells'
\* stripped text; a tr without cells is dropped.
parse_table_rows(trs) ==
    LET cells(tr) == [i \in 1..Len(tr) |-> strip(tr[i])]
        body == IF trs = <<>> THEN <<>> ELSE Tail(trs)
    IN  SelectSeq([i \in 1..Len(body) |-> cells(body[i])], LAMBDA r : r # <<>>)

\* A parser reads a section sec of the page: whether its heading is found
\* (sec.heading), whether a table follows it (sec.table), and the table's
\* tr elements, the header first (sec.trs).

\* The loop of the parsers of three-column sections with a fixed country.
rows_fixed_country(addrs, rows, country, bfpo_type) ==
    LET f[i \in 0..Len(rows)] ==
            IF i = 0 THEN addrs
            ELSE IF Len(rows[i]) >= 3
                 THEN add_address(f[i - 1], rows[i][2], rows[i][1], rows[i][3],
                                  country, bfpo_type, None)
                 ELSE f[i - 1]
    IN  f[Len(rows)]

\* The loop of the parsers of four-column sections (country in the row).
rows_with_country(addrs, rows, bfpo_type) ==
    LET f[i \in 0..Len(rows)] ==
            IF i = 0 THEN addrs
            ELSE IF Len(rows[i]) >= 4
                 THEN add_address(f[i - 1], rows[i][2], rows[i][1], rows[i][3],
                                  rows[i][4], bfpo_type, None)
                 ELSE f[i - 1]
    IN  f[Len(rows)]

parse_germany_locations(addrs, sec) ==
    IF ~sec.heading THEN addrs
    ELSE IF ~sec.table THEN addrs
    ELSE rows_fixed_country(addrs, parse_table_rows(sec.trs), <<"G","e","r","m","a","n","y">>, T_static)

parse_uk_locations(addrs, sec) ==
    IF ~sec.heading THEN addrs
    ELSE IF ~sec.table THEN addrs
    ELSE rows_fixed_country(addrs, parse_table_rows(sec.trs),
                            <<"U","n","i","t","e","d"," ","K","i","n","g","d","o","m">>, T_static)

parse_europe_locations(addrs, sec) ==
    IF ~sec.heading THEN addrs
    ELSE IF ~sec.table THEN addrs
    ELSE rows_with_country(addrs, parse_table_rows(sec.trs), T_static)

parse_world_locations(addrs, sec) ==
    IF ~sec.heading THEN addrs
    ELSE IF ~sec.table THEN addrs
    ELSE rows_with_country(addrs, parse_table_rows(sec.trs), T_static)

parse_ships(addrs, sec) ==
    IF ~sec.heading THEN addrs
    ELSE IF ~sec.table THEN addrs
    ELSE rows_fixed_country(addrs, parse_table_rows(sec.trs), None, T_ship)

\* The country a naval party's location names, None when it names none.
naval_party_country(location) ==
    IF contains(location, <<"D","i","e","g","o"," ","G","a","r","c","i","a">>) THEN <<"B","r","i","t","i","s","h"," ","I","n","d","i","a","n"," ","O","c","e","a","n"," ","T","e","r","r","i","t","o","r","y">>
    ELSE IF contains(location, <<"O","t","t","a","w","a">>) THEN <<"C","a","n","a","d","a">>
    ELSE IF contains(location, <<"S","i","n","g","a","p","o","r","e">>) THEN <<"S","i","n","g","a","p","o","r","e">>
    ELSE IF contains(location, <<"D","e","n"," ","H","e","l","d","e","r">>) THEN <<"N","e","t","h","e","r","l","a","n","d","s">>
    ELSE IF contains(location, <<"F","a","l","k","l","a","n","d","s">>) THEN <<"F","a","l","k","l","a","n","d","s">>
    ELSE None

parse_naval_parties(addrs, sec) ==
    LET rows == parse_table_rows(sec.trs)
        f[i \in 0..Len(rows)] ==
            IF i = 0 THEN addrs
            ELSE IF Len(rows[i]) >= 3
                 THEN add_address(f[i - 1], rows[i][2], rows[i][1], rows[i][3],
                                  naval_party_country(rows[i][1]), T_navalparty, None)
                 ELSE f[i - 1]
    IN  IF ~sec.heading THEN addrs
        ELSE IF ~sec.table THEN addrs
        ELSE f[Len(rows)]

parse_operations(addrs, sec) ==
    IF ~sec.heading THEN addrs
    ELSE IF ~sec.table THEN addrs
    ELSE rows_fixed_country(addrs, parse_table_rows(sec.trs), None, T_operation)

parse_exercises(addrs, sec) ==
    IF ~sec.heading THEN addrs
    ELSE IF ~sec.table THEN addrs
    ELSE rows_fixed_country(addrs, parse_table_rows(sec.trs), None, T_exercise)

parse_isolated_detachments(addrs, sec) ==
    LET rows == parse_table_rows(sec.trs)
        f[i \in 0..Len(rows)] ==
            IF i = 0 THEN addrs
            ELSE IF Len(rows[i]) >= 2
                 THEN add_address(f[i - 1], <<"1","0","5">>, rows[i][1],
                                  ISOLATED_DETACHMENT_POSTCODE, <<"G","e","r","m","a","n","y">>,
                                  T_detachment, rows[i][2])
                 ELSE f[i - 1]
    IN  IF ~sec.heading THEN addrs
        ELSE IF ~sec.table THEN addrs
        ELSE f[Len(rows)]

\* ------------------------------------------------------ FCDO spreadsheet

\* A cell of the DataFrame: a string, an integer, a float with an integral
\* value, or NaN (an empty cell).
RECURSIVE decimal(_)
\* str(n) for an integer n >= 0
decimal(n) == IF n < 10 THEN <<Digits[n + 1]>> ELSE decimal(n \div 10) \o <<Digits[(n % 10) + 1]>>

\* str(cell)
py_str(cell) ==
    CASE cell.k = "str" -> cell.v
      [] cell.k = "int" -> decimal(cell.v)
      [] cell.k = "float" -> decimal(cell.v) \o <<".","0">>
      [] cell.k = "nan" -> <<"n","a","n">>

\* A column name is <<base, i>>: base alone for i = 0, base.i for i >= 1.
Bases == <<"Location", "BFPO No", "Postcode">>

HasGroup(columns, i) == \A b \in 1..3 : <<Bases[b], i>> \in columns

RECURSIVE numbered_groups_sparse(_, _)
\* A scan that passes over a group missing a column and goes on to the
\* next index.
numbered_groups_sparse(columns, i) ==
    IF \A j \in 0..20 : ~HasGroup(columns, i + j) THEN <<>>
    ELSE (IF HasGroup(columns, i) THEN <<i>> ELSE <<>>)
         \o numbered_groups_sparse(columns, i + 1)

RECURSIVE numbered_groups(_, _)
\* The while loop: groups i, i + 1, ... up to the first one missing a column.
numbered_groups(columns, i) ==
    IF HasGroup(columns, i) THEN <<i>> \o numbered_groups(columns, i + 1) ELSE <<>>

\* column_groups: the indices of the groups that are read, in order.
column_groups(columns) ==
    (IF HasGroup(columns, 0) THEN <<0>> ELSE <<>>) \o numbered_groups(columns, 1)

country_patterns ==
    <<
       << <<"a","n","k","a","r","a">>, <<"T","u","r","k","e","y">> >>,
       << <<"p","a","r","i","s">>, <<"F","r","a","n","c","e">> >>,
       << <<"b","e","r","l","i","n">>, <<"G","e","r","m","a","n","y">> >>,
       << <<"m","a","d","r","i","d">>, <<"S","p","a","i","n">> >>,
       << <<"r","o","m","e">>, <<"I","t","a","l","y">> >>,
       << <<"a","t","h","e","n","s">>, <<"G","r","e","e","c","e">> >>,
       << <<"v","i","e","n","n","a">>, <<"A","u","s","t","r","i","a">> >>,
       << <<"b","r","u","s","s","e","l","s">>, <<"B","e","l","g","i","u","m">> >>,
       << <<"a","m","s","t","e","r","d","a","m">>, <<"N","e","t","h","e","r","l","a","n","d","s">> >>,
       << <<"d","u","b","l","i","n">>, <<"I","r","e","l","a","n","d">> >>,
       << <<"l","i","s","b","o","n">>, <<"P","o","r","t","u","g","a","l">> >>,
       << <<"c","o","p","e","n","h","a","g","e","n">>, <<"D","e","n","m","a","r","k">> >>,
       << <<"s","t","o","c","k","h","o","l","m">>, <<"S","w","e","d","e","n">> >>,
       << <<"o","s","l","o">>, <<"N","o","r","w","a","y">> >>,
       << <<"h","e","l","s","i","n","k","i">>, <<"F","i","n","l","a","n","d">> >>,
       << <<"w","a","r","s","a","w">>, <<"P","o","l","a","n","d">> >>,
       << <<"p","r","a","g","u","e">>, <<"C","z","e","c","h"," ","R","e","p","u","b","l","i","c">> >>,
       << <<"b","u","d","a","p","e","s","t">>, <<"H","u","n","g","a","r","y">> >>,
       << <<"b","u","c","h","a","r","e","s","t">>, <<"R","o","m","a","n","i","a">> >>,
       << <<"s","o","f","i","a">>, <<"B","u","l","g","a","r","i","a">> >>,
       << <<"m","o","s","c","o","w">>, <<"R","u","s","s","i","a">> >>,
       << <<"o","t","t","a","w","a">>, <<"C","a","n","a","d","a">> >>,
       << <<"w","a","s","h","i","n","g","t","o","n">>, <<"U","S","A">> >>,
       << <<"n","e","w"," ","y","o","r","k">>, <<"U","S","A">> >>,
       << <<"l","o","s"," ","a","n","g","e","l","e","s">>, <<"U","S","A">> >>,
       << <<"s","a","n"," ","f","r","a","n","c","i","s","c","o">>, <<"U","S","A">> >>,
       << <<"c","h","i","c","a","g","o">>, <<"U","S","A">> >>,
       << <<"b","o","s","t","o","n">>, <<"U","S","A">> >>,
       << <<"a","t","l","a","n","t","a">>, <<"U","S","A">> >>,
       << <<"m","e","x","i","c","o"," ","c","i","t","y">>, <<"M","e","x","i","c","o">> >>,
       << <<"b","r","a","s","i","l","i","a">>, <<"B","r","a","z","i","l">> >>,
       << <<"b","u","e","n","o","s"," ","a","i","r","e","s">>, <<"A","r","g","e","n","t","i","n","a">> >>,
       << <<"s","a","n","t","i","a","g","o">>, <<"C","h","i","l","e">> >>,
       << <<"l","i","m","a">>, <<"P","e","r","u">> >>,
       << <<"b","o","g","o","t","a">>, <<"C","o","l","o","m","b","i","a">> >>,
       << <<"t","o","k","y","o">>, <<"J","a","p","a","n">> >>,
       << <<"b","e","i","j","i","n","g">>, <<"C","h","i","n","a">> >>,
       << <<"s","h","a","n","g","h","a","i">>, <<"C","h","i","n","a">> >>,
       << <<"s","e","o","u","l">>, <<"S","o","u","t","h"," ","K","o","r","e","a">> >>,
       << <<"d","e","l","h","i">>, <<"I","n","d","i","a">> >>,
       << <<"m","u","m","b","a","i">>, <<"I","n","d","i","a">> >>,
       << <<"b","a","n","g","k","o","k">>, <<"T","h","a","i","l","a","n","d">> >>,
       << <<"s","i","n","g","a","p","o","r","e">>, <<"S","i","n","g","a","p","o","r","e">> >>,
       << <<"j","a","k","a","r","t","a">>, <<"I","n","d","o","n","e","s","i","a">> >>,
       << <<"m","a","n","i","l","a">>, <<"P","h","i","l","i","p","p","i","n","e","s">> >>,
       << <<"k","u","a","l","a"," ","l","u","m","p","u","r">>, <<"M","a","l","a","y","s","i","a">> >>,
       << <<"h","a","n","o","i">>, <<"V","i","e","t","n","a","m">> >>,
       << <<"i","s","l","a","m","a","b","a","d">>, <<"P","a","k","i","s","t","a","n">> >>,
       << <<"k","a","b","u","l">>, <<"A","f","g","h","a","n","i","s","t","a","n">> >>,
       << <<"t","e","h","r","a","n">>, <<"I","r","a","n">> >>,
       << <<"r","i","y","a","d","h">>, <<"S","a","u","d","i"," ","A","r","a","b","i","a">> >>,
       << <<"d","u","b","a","i">>, <<"U","n","i","t","e","d"," ","A","r","a","b"," ","E","m","i","r","a","t","e","s">> >>,
       << <<"a","b","u"," ","d","h","a","b","i">>, <<"U","n","i","t","e","d"," ","A","r","a","b"," ","E","m","i","r","a","t","e","s">> >>,
       << <<"c","a","n","b","e","r","r","a">>, <<"A","u","s","t","r","a","l","i","a">> >>,
       << <<"s","y","d","n","e","y">>, <<"A","u","s","t","r","a","l","i","a">> >>,
       << <<"m","e","l","b","o","u","r","n","e">>, <<"A","u","s","t","r","a","l","i","a">> >>,
       << <<"w","e","l","l","i","n","g","t","o","n">>, <<"N","e","w"," ","Z","e","a","l","a","n","d">> >>,
       << <<"a","u","c","k","l","a","n","d">>, <<"N","e","w"," ","Z","e","a","l","a","n","d">> >>,
       << <<"c","a","i","r","o">>, <<"E","g","y","p","t">> >>,
       << <<"n","a","i","r","o","b","i">>, <<"K","e","n","y","a">> >>,
       << <<"j","o","h","a","n","n","e","s","b","u","r","g">>, <<"S","o","u","t","h"," ","A","f","r","i","c","a">> >>,
       << <<"p","r","e","t","o","r","i","a">>, <<"S","o","u","t","h"," ","A","f","r","i","c","a">> >>,
       << <<"l","a","g","o","s">>, <<"N","i","g","e","r","i","a">> >>,
       << <<"a","b","u","j","a">>, <<"N","i","g","e","r","i","a">> >>,
       << <<"a","d","d","i","s"," ","a","b","a","b","a">>, <<"E","t","h","i","o","p","i","a">> >>,
       << <<"a","c","c","r","a">>, <<"G","h","a","n","a">> >>,
       << <<"d","a","r"," ","e","s"," ","s","a","l","a","a","m">>, <<"T","a","n","z","a","n","i","a">> >>,
       << <<"k","a","m","p","a","l","a">>, <<"U","g","a","n","d","a">> >>
   >>

\* _infer_country_from_location returning the country of the last pattern
\* that occurs, not the first.
infer_country_last_match(location) ==
    LET location_lower == lower(location)
        hits == {i \in 1..Len(country_patterns) :
                    contains(location_lower, country_patterns[i][1])}
    IN  IF hits = {} THEN None
        ELSE country_patterns[CHOOSE i \in hits : \A j \in hits : j <= i][2]

\* _infer_country_from_location: the country of the first pattern, in the
\* dict's order, that occurs in the lower-cased location.
infer_country_from_location(location) ==
    LET location_lower == lower(location)
        hits == {i \in 1..Len(country_patterns) :
                    contains(location_lower, country_patterns[i][1])}
    IN  IF hits = {} THEN None
        ELSE country_patterns[CHOOSE i \in hits : \A j \in hits : i <= j][2]

\* The body of the loop over one group of one row: row[g] is the triple of
\* cells <<Location, BFPO No, Postcode>> of group g.
fcdo_group(addrs, row, g) ==
    LET location == strip(py_str(row[g][1]))
        bfpo_num == strip(py_str(row[g][2]))
        postcode == strip(py_str(row[g][3]))
    IN  IF location = <<"n","a","n">> \/ location = <<>> \/ bfpo_num = <<"n","a","n">> \/ bfpo_num = <<>>
        THEN addrs
        ELSE add_address(addrs, bfpo_num, location,
                         IF postcode = <<"n","a","n">> \/ postcode = <<>> THEN None ELSE postcode,
                         infer_country_from_location(location), T_fcdo, None)

\* parse_fcdo_ods on a DataFrame that was read: every row, and in it every
\* group of column_groups.
parse_fcdo_ods(addrs, df) ==
    LET groups == column_groups(df.columns)
        n == Len(groups)
        f[k \in 0..(Len(df.rows) * n)] ==
            IF k = 0 THEN addrs
            ELSE fcdo_group(f[k - 1], df.rows[((k - 1) \div n) + 1],
                            groups[((k - 1) % n) + 1])
    IN  f[Len(df.rows) * n]

\* ------------------------------------------------------------ generate_xml

\* get_sort_key
get_sort_key(addr) ==
    LET bfpo_num == strip(replace(addr["BfpoNum"], BFPO_SP, <<>>))
    IN  IF isdigit(bfpo_num) THEN int(bfpo_num) ELSE NonNumericKey

\* A sort that keeps one record per BfpoNum, the first collected.
sort_addresses_dedup(addrs) ==
    LET first(i) == \A j \in 1..(i - 1) : addrs[j]["BfpoNum"] # addrs[i]["BfpoNum"]
        kept == SelectSeq([i \in 1..Len(addrs) |-> <<i, addrs[i]>>], LAMBDA p : first(p[1]))
        insert(sorted, a) ==
            LET before == SelectSeq(sorted, LAMBDA b : get_sort_key(b) <= get_sort_key(a))
                after == SelectSeq(sorted, LAMBDA b : get_sort_key(b) > get_sort_key(a))
            IN  before \o <<a>> \o after
        f[i \in 0..Len(kept)] == IF i = 0 THEN <<>> ELSE insert(f[i - 1], kept[i][2])
    IN  f[Len(kept)]

\* list.sort(key=get_sort_key): stable, so an element is placed after the
\* elements before it whose key is not greater.
sort_addresses(addrs) ==
    LET insert(sorted, a) ==
            LET before == SelectSeq(sorted, LAMBDA b : get_sort_key(b) <= get_sort_key(a))
                after == SelectSeq(sorted, LAMBDA b : get_sort_key(b) > get_sort_key(a))
            IN  before \o <<a>> \o after
        f[i \in 0..Len(addrs)] == IF i = 0 THEN <<>> ELSE insert(f[i - 1], addrs[i])
    IN  f[Len(addrs)]

\* The children of one BFFO_Address element, in document order, each as
\* <<tag, text>>.
address_element(addr) ==
    LET has(k) == k \in DOMAIN addr
    IN  << <<"BfpoNum", addr["BfpoNum"]>> >>
        \o (IF has("BoxNum") THEN << <<"BoxNum", addr["BoxNum"]>> >> ELSE <<>>)
        \o << <<"Loc", addr["Loc"]>> >>
        \o (IF has("PstCd") THEN << <<"PstCd", addr["PstCd"]>> >> ELSE <<>>)
        \o (IF has("Ctry") THEN << <<"Ctry", addr["Ctry"]>> >> ELSE <<>>)
        \o (IF has("CtryCd") /\ Truthy(addr["CtryCd"])
            THEN << <<"CtryCd", addr["CtryCd"]>> >> ELSE <<>>)
        \o << <<"Type", addr["Type"]>> >>

\* _print_country_stats: the two counts and the set of unmapped names.
country_stats(addrs) ==
    LET with_country == {i \in 1..Len(addrs) : "Ctry" \in DOMAIN addrs[i]}
        with_code == {i \in 1..Len(addrs) : "CtryCd" \in DOMAIN addrs[i]}
    IN  [total_with_country |-> Cardinality(with_country),
         total_with_code |-> Cardinality(with_code),
         unmapped_countries |->
             IF Cardinality(with_country) > Cardinality(with_code)
             THEN {addrs[i]["Ctry"] : i \in {j \in with_country : j \notin with_code}}
             ELSE {}]

\* ------------------------------------------------------------------ inputs

\* tr elements, as their cells' raw text, of the sections of locations
\* (location, BFPO number, postcode).
RowsLocations ==
    { << <<"O","t","t","a","w","a">>, <<"1","5">>, <<"B","F","1"," ","2","A","B">> >>,
      << <<"H","Q">>, <<"b","f","p","o"," ","1","5">>, <<>> >>,
      << <<"H","Q">>, <<" ">>, <<"B","F","1"," ","2","A","B">> >>,
      << <<"H","Q">>, <<"1","5">> >> }

\* tr elements of the ships, operations and exercises sections.
RowsOperations ==
    { << <<"E","x">>, <<"E","X","-","A">>, <<>> >>,
      << <<"E","x">>, <<" ","1","0","0","0">>, <<"B","F","1"," ","2","A","B">> >>,
      << <<"E","x">>, <<"1","5">>, <<>> >>,
      << >> }

\* tr elements of the sections whose fourth cell is the country.
RowsEurope ==
    { << <<"H","Q">>, <<"2","2">>, <<"B","F","1"," ","2","A","B">>, <<"G","e","r","m","a","n","y">> >>,
      << <<"H","Q">>, <<"B","F","P","O"," ","3">>, <<>>, <<"H","o","l","l","a","n","d">> >>,
      << <<>>, <<"2","2">>, <<"B","F","1"," ","2","A","B">>, <<>> >>,
      << <<"H","Q">>, <<"2","2">>, <<"B","F","1"," ","2","A","B">> >> }

RowsWorld ==
    { << <<"H","Q">>, <<"2","2">>, <<>>, <<"s","o","u","t","h"," ","k","o","r","e","a">> >>,
      << <<"H","Q">>, <<"9","9","9">>, <<"B","F","1"," ","2","A","B">>, <<"A","t","l","a","n","t","i","s">> >>,
      << <<"H","Q">>, <<"B","F","P","O","3">>, <<"B","F","1"," ","2","A","B">> >> }

\* tr elements of the naval parties section.
RowsNaval ==
    { << <<"O","t","t","a","w","a">>, <<"0","0","5">>, <<"K","1","N"," ","1","A","1">> >>,
      << <<"F","a","l","k","l","a","n","d","s"," ","N","P","2","0","1","0">>, <<"1","0","0","0">>, <<>> >>,
      << <<"N","P","1","9","6","4">>, <<"4","8","5">>, <<>> >> }

\* tr elements of the isolated detachments section (location, box number).
RowsBox ==
    { << <<"O","t","t","a","w","a">>, <<"7">> >>,
      << <<"H","Q">>, <<>> >>,
      << <<"H","Q">> >> }

Header == << <<"L","o","c","a","t","i","o","n">>, <<"B","F","P","O"," ","n","u","m","b","e","r">> >>

\* The sections a parser may meet: no heading, a heading with no table
\* after it, or a table of a header and up to MaxRows further tr elements.
Sections(menu) ==
    { [heading |-> FALSE, table |-> FALSE, trs |-> <<>>],
      [heading |-> TRUE, table |-> FALSE, trs |-> <<>>],
      [heading |-> TRUE, table |-> TRUE, trs |-> <<>>] }
    \cup { [heading |-> TRUE, table |-> TRUE, trs |-> <<Header>> \o rows] :
             rows \in UNION { [1..n -> menu] : n \in 0..MaxRows } }

LocationSections == Sections(RowsLocations)

OperationSections == Sections(RowsOperations)

EuropeSections == Sections(RowsEurope)

WorldSections == Sections(RowsWorld)

NavalSections == Sections(RowsNaval)

BoxSections == Sections(RowsBox)

Str(t) == [k |-> "str", v |-> t]

NaN == [k |-> "nan"]

\* Triples of cells <<Location, BFPO No, Postcode>> of one group of one row.
Paris == << Str(<<"B","r","i","t","i","s","h"," ","E","m","b","a","s","s","y"," ","P","a","r","i","s">>), [k |-> "int", v |-> 5], Str(<<"B","F","1"," ","2","A","B">>) >>

Blank == << NaN, NaN, NaN >>

Kabul == << Str(<<"K","A","B","U","L"," ","o","f","f","i","c","e"," ">>), Str(<<"b","f","p","o"," ","1","5">>), NaN >>

Depot == << Str(<<"D","e","p","o","t">>), [k |-> "float", v |-> 1000], Str(<<" ">>) >>

NoLoc == << Str(<<" ">>), [k |-> "int", v |-> 5], Str(<<"B","F","1"," ","2","A","B">>) >>

\* Rows of the DataFrame: the cells of groups 0 (unsuffixed), 1 and 2.
DfRows ==
    { (0 :> Paris) @@ (1 :> Paris) @@ (2 :> Depot),
      (0 :> Kabul) @@ (1 :> Blank) @@ (2 :> Paris),
      (0 :> NoLoc) @@ (1 :> Depot) @@ (2 :> Blank) }

Group(i) == { <<Bases[b], i>> : b \in 1..3 }

\* Column sets of the DataFrame.
DfColumns ==
    { {},
      Group(0),
      Group(0) \cup Group(1),
      Group(0) \cup Group(2),
      {<<"Location", 0>>, <<"BFPO No", 0>>} \cup Group(1) }

DataFrames ==
    { [columns |-> c, rows |-> r] :
        c \in DfColumns, r \in UNION { [1..n -> DfRows] : n \in 0..MaxRows } }

GivenPath == <<"f","c","d","o",".","o","d","s">>

TempPath == <<"/","t","m","p","/","t","m","p","1",".","o","d","s">>

\* ------------------------------------------------------------------- state

VARIABLES
    pc,             \* where run() is
    response,       \* outcome of the page fetch: "none", "ok", "failed"
    anyHeading,     \* whether a parser so far found its section's heading
    addresses,      \* self.addresses
    scraped,        \* self.addresses when scrape_gov_uk_bfpo reports its count
    fcdo_ods_file,  \* self.fcdo_ods_file
    ods_file,       \* run's ods_file
    cleanup_temp,   \* run's cleanup_temp
    odsStatus,      \* what became of the spreadsheet source
    written,        \* whether the output document was written
    xml,            \* the BFFO_Address elements of the written document
    stats,          \* what _print_country_stats reported
    call            \* a call of one operation on its own: op, arg, result

vars == << pc, response, anyHeading, addresses, scraped, fcdo_ods_file, ods_file,
           cleanup_temp, odsStatus, written, xml, stats, call >>

\* No operation is called on its own during run().
NoCall == [op |-> "none"]

\* BFPOScraperSimple(output_file, fcdo_ods_file) as main() builds it, before
\* run(): with or without the spreadsheet path argument.
Init ==
    /\ pc = "fetch"
    /\ response = "none"
    /\ anyHeading = FALSE
    /\ addresses = <<>>
    /\ scraped = <<>>
    /\ fcdo_ods_file \in {None, GivenPath}
    /\ ods_file = None
    /\ cleanup_temp = FALSE
    /\ odsStatus = "none"
    /\ written = FALSE
    /\ xml = <<>>
    /\ stats = [total_with_country |-> 0, total_with_code |-> 0,
                unmapped_countries |-> {}]
    /\ call = NoCall

\* ------------------------------------------------------------------- steps

\* The fetch failure caught and not raised again: run() goes on.
FetchPageFails_swallowed ==
    /\ pc = "fetch"
    /\ response' = "failed"
    /\ pc' = "scraped"
    /\ UNCHANGED << anyHeading, addresses, scraped, fcdo_ods_file, ods_file,
                    cleanup_temp, odsStatus, written, xml, stats,
                    call >>

\* scrape_gov_uk_bfpo: requests.get or raise_for_status raises; the except
\* clause re-raises and the exception leaves run().
FetchPageFails ==
    /\ pc = "fetch"
    /\ response' = "failed"
    /\ pc' = "error"
    /\ UNCHANGED << anyHeading, addresses, scraped, fcdo_ods_file, ods_file,
                    cleanup_temp, odsStatus, written, xml, stats,
                    call >>

\* scrape_gov_uk_bfpo: the page is fetched and parsed into soup.
FetchPageOk ==
    /\ pc = "fetch"
    /\ response' = "ok"
    /\ pc' = "germany"
    /\ UNCHANGED << anyHeading, addresses, scraped, fcdo_ods_file, ods_file,
                    cleanup_temp, odsStatus, written, xml, stats,
                    call >>

\* The nine parser calls of scrape_gov_uk_bfpo, in its order, each on the
\* section it looks for.  The section is one whose rows the collection has
\* room for.

\* The Germany parser raising when its heading is missing: the exception
\* leaves scrape_gov_uk_bfpo and run().
ParseGermanyLocations_raises ==
    /\ pc = "germany"
    /\ \E sec \in LocationSections :
          /\ Len(addresses) + Len(sec.trs) <= MaxAddrs + 1
          /\ addresses' = parse_germany_locations(addresses, sec)
          /\ anyHeading' = (anyHeading \/ sec.heading)
          /\ pc' = IF sec.heading THEN "uk" ELSE "error"
    /\ UNCHANGED << response, scraped, fcdo_ods_file, ods_file, cleanup_temp,
                    odsStatus, written, xml, stats,
                    call >>

ParseGermanyLocations ==
    /\ pc = "germany"
    /\ \E sec \in LocationSections :
          /\ Len(addresses) + Len(sec.trs) <= MaxAddrs + 1
          /\ addresses' = parse_germany_locations(addresses, sec)
          /\ anyHeading' = (anyHeading \/ sec.heading)
    /\ pc' = "uk"
    /\ UNCHANGED << response, scraped, fcdo_ods_file, ods_file, cleanup_temp,
                    odsStatus, written, xml, stats,
                    call >>

ParseUkLocations ==
    /\ pc = "uk"
    /\ \E sec \in LocationSections :
          /\ Len(addresses) + Len(sec.trs) <= MaxAddrs + 1
          /\ addresses' = parse_uk_locations(addresses, sec)
          /\ anyHeading' = (anyHeading \/ sec.heading)
    /\ pc' = "europe"
    /\ UNCHANGED << response, scraped, fcdo_ods_file, ods_file, cleanup_temp,
                    odsStatus, written, xml, stats,
                    call >>

ParseEuropeLocations ==
    /\ pc = "europe"
    /\ \E sec \in EuropeSections :
          /\ Len(addresses) + Len(sec.trs) <= MaxAddrs + 1
          /\ addresses' = parse_europe_locations(addresses, sec)
          /\ anyHeading' = (anyHeading \/ sec.heading)
    /\ pc' = "world"
    /\ UNCHANGED << response, scraped, fcdo_ods_file, ods_file, cleanup_temp,
                    odsStatus, written, xml, stats,
                    call >>

ParseWorldLocations ==
    /\ pc = "world"
    /\ \E sec \in WorldSections :
          /\ Len(addresses) + Len(sec.trs) <= MaxAddrs + 1
          /\ addresses' = parse_world_locations(addresses, sec)
          /\ anyHeading' = (anyHeading \/ sec.heading)
    /\ pc' = "ships"
    /\ UNCHANGED << response, scraped, fcdo_ods_file, ods_file, cleanup_temp,
                    odsStatus, written, xml, stats,
                    call >>

ParseShips ==
    /\ pc = "ships"
    /\ \E sec \in OperationSections :
          /\ Len(addresses) + Len(sec.trs) <= MaxAddrs + 1
          /\ addresses' = parse_ships(addresses, sec)
          /\ anyHeading' = (anyHeading \/ sec.heading)
    /\ pc' = "naval"
    /\ UNCHANGED << response, scraped, fcdo_ods_file, ods_file, cleanup_temp,
                    odsStatus, written, xml, stats,
                    call >>

ParseNavalParties ==
    /\ pc = "naval"
    /\ \E sec \in NavalSections :
          /\ Len(addresses) + Len(sec.trs) <= MaxAddrs + 1
          /\ addresses' = parse_naval_parties(addresses, sec)
          /\ anyHeading' = (anyHeading \/ sec.heading)
    /\ pc' = "operations"
    /\ UNCHANGED << response, scraped, fcdo_ods_file, ods_file, cleanup_temp,
                    odsStatus, written, xml, stats,
                    call >>

ParseOperations ==
    /\ pc = "operations"
    /\ \E sec \in OperationSections :
          /\ Len(addresses) + Len(sec.trs) <= MaxAddrs + 1
          /\ addresses' = parse_operations(addresses, sec)
          /\ anyHeading' = (anyHeading \/ sec.heading)
    /\ pc' = "exercises"
    /\ UNCHANGED << response, scraped, fcdo_ods_file, ods_file, cleanup_temp,
                    odsStatus, written, xml, stats,
                    call >>

ParseExercises ==
    /\ pc = "exercises"
    /\ \E sec \in OperationSections :
          /\ Len(addresses) + Len(sec.trs) <= MaxAddrs + 1
          /\ addresses' = parse_exercises(addresses, sec)
          /\ anyHeading' = (anyHeading \/ sec.heading)
    /\ pc' = "detachments"
    /\ UNCHANGED << response, scraped, fcdo_ods_file, ods_file, cleanup_temp,
                    odsStatus, written, xml, stats,
                    call >>

ParseIsolatedDetachments ==
    /\ pc = "detachments"
    /\ \E sec \in BoxSections :
          /\ Len(addresses) + Len(sec.trs) <= MaxAddrs + 1
          /\ addresses' = parse_isolated_detachments(addresses, sec)
          /\ anyHeading' = (anyHeading \/ sec.heading)
    /\ pc' = "scraped"
    /\ UNCHANGED << response, scraped, fcdo_ods_file, ods_file, cleanup_temp,
                    odsStatus, written, xml, stats,
                    call >>

\* scrape_gov_uk_bfpo reports len(self.addresses) and returns to run().
ScrapeDone ==
    /\ pc = "scraped"
    /\ scraped' = addresses
    /\ pc' = "select"
    /\ UNCHANGED << response, anyHeading, addresses, fcdo_ods_file, ods_file,
                    cleanup_temp, odsStatus, written, xml, stats,
                    call >>

\* run: the pre-downloaded spreadsheet named on the command line is used.
UsePreDownloaded ==
    /\ pc = "select"
    /\ Truthy(fcdo_ods_file)
    /\ ods_file' = fcdo_ods_file
    /\ pc' = "check"
    /\ UNCHANGED << response, anyHeading, addresses, scraped, fcdo_ods_file,
                    cleanup_temp, odsStatus, written, xml, stats,
                    call >>

\* run calls download_fcdo_ods, which returns the temporary file's name, or
\* None when the download raises.
DownloadFcdoOds ==
    /\ pc = "select"
    /\ ~Truthy(fcdo_ods_file)
    /\ \E ok \in BOOLEAN : ods_file' = IF ok THEN TempPath ELSE None
    /\ cleanup_temp' = TRUE
    /\ pc' = "check"
    /\ UNCHANGED << response, anyHeading, addresses, scraped, fcdo_ods_file,
                    odsStatus, written, xml, stats,
                    call >>

\* run: no spreadsheet file, the FCDO data is skipped.
SkipFcdo ==
    /\ pc = "check"
    /\ ~Truthy(ods_file)
    /\ odsStatus' = "skipped"
    /\ pc' = "generate"
    /\ UNCHANGED << response, anyHeading, addresses, scraped, fcdo_ods_file,
                    ods_file, cleanup_temp, written, xml, stats,
                    call >>

\* run: os.path.exists(ods_file) is false.
OdsFileNotFound ==
    /\ pc = "check"
    /\ Truthy(ods_file)
    /\ odsStatus' = "not found"
    /\ pc' = "generate"
    /\ UNCHANGED << response, anyHeading, addresses, scraped, fcdo_ods_file,
                    ods_file, cleanup_temp, written, xml, stats,
                    call >>

\* The read error not caught: the exception leaves run().
ReadOdsFails_propagates ==
    /\ pc = "check"
    /\ Truthy(ods_file)
    /\ odsStatus' = "unreadable"
    /\ pc' = "error"
    /\ UNCHANGED << response, anyHeading, addresses, scraped, fcdo_ods_file,
                    ods_file, cleanup_temp, written, xml, stats,
                    call >>

\* parse_fcdo_ods: pd.read_excel raises; the except clause prints the error
\* and the method returns.
ReadOdsFails ==
    /\ pc = "check"
    /\ Truthy(ods_file)
    /\ odsStatus' = "unreadable"
    /\ pc' = "generate"
    /\ UNCHANGED << response, anyHeading, addresses, scraped, fcdo_ods_file,
                    ods_file, cleanup_temp, written, xml, stats,
                    call >>

\* parse_fcdo_ods: the spreadsheet is read into a DataFrame and parsed.
ParseFcdoOds ==
    /\ pc = "check"
    /\ Truthy(ods_file)
    /\ \E df \in DataFrames :
          /\ Len(addresses) + Len(df.rows) * Len(column_groups(df.columns)) <= MaxAddrs
          /\ addresses' = parse_fcdo_ods(addresses, df)
    /\ odsStatus' = "parsed"
    /\ pc' = "generate"
    /\ UNCHANGED << response, anyHeading, scraped, fcdo_ods_file, ods_file,
                    cleanup_temp, written, xml, stats,
                    call >>

\* generate_xml: sort, build the elements, write the document, report the
\* country statistics.
GenerateXml ==
    /\ pc = "generate"
    /\ addresses' = sort_addresses(addresses)
    /\ xml' = [i \in 1..Len(addresses') |-> address_element(addresses'[i])]
    /\ stats' = country_stats(addresses')
    /\ written' = TRUE
    /\ pc' = "done"
    /\ UNCHANGED << response, anyHeading, scraped, fcdo_ods_file, ods_file,
                    cleanup_temp, odsStatus,
                    call >>

Next ==
    \/ FetchPageFails
    \/ FetchPageOk
    \/ ParseGermanyLocations
    \/ ParseUkLocations
    \/ ParseEuropeLocations
    \/ ParseWorldLocations
    \/ ParseShips
    \/ ParseNavalParties
    \/ ParseOperations
    \/ ParseExercises
    \/ ParseIsolatedDetachments
    \/ ScrapeDone
    \/ UsePreDownloaded
    \/ DownloadFcdoOds
    \/ SkipFcdo
    \/ OdsFileNotFound
    \/ ReadOdsFails
    \/ ParseFcdoOds
    \/ GenerateXml

Spec == Init /\ [][Next]_vars

\* ------------------------------------------- operations called on their own

\* Highest index of a numbered column group (Location.i, ...) a DataFrame
\* may hold.
MaxGroup == 2

\* Characters of the codes validate_country_code is asked about.
CodeChars == {"D", "E", "d", "e", "X", "Q", "1"}

\* Codes: every two-character string over CodeChars, the values of
\* SPECIAL_CASES, the codes of the catalog, and strings that are absent,
\* empty, too short or too long.
Codes ==
    { <<a, b>> : a, b \in CodeChars }
    \cup { SPECIAL_CASES[i][2] : i \in 1..Len(SPECIAL_CASES) }
    \cup { Countries[i][3] : i \in 1..Len(Countries) }
    \cup { lower(Countries[i][3]) : i \in 1..Len(Countries) }
    \cup { None, <<>>, <<"D">>, <<"D","E","U">>, <<"N","L","D">> }

\* Country names get_country_code is asked about: the keys of
\* SPECIAL_CASES, the names and common names of the catalog, and names in
\* another letter case, partial, unknown, empty or absent.
CountryNames ==
    { SPECIAL_CASES[i][1] : i \in 1..Len(SPECIAL_CASES) }
    \cup { Countries[i][1] : i \in 1..Len(Countries) }
    \cup { Countries[i][2] : i \in 1..Len(Countries) }
    \cup { <<>>, <<"g","e","r","m","a","n","y">>, <<"G","E","R","M","A","N","Y">>, <<"s","o","u","t","h"," ","k","o","r","e","a">>, <<"S","O","U","T","H"," ","K","O","R","E","A">>,
           <<"R","u","s","s","i","a">>, <<"K","o","r","e","a">>, <<"a","f","r","i","c","a">>, <<"A","t","l","a","n","t","i","s">>, <<"N","o","t","-","A","-","R","e","a","l","-","C","o","u","n","t","r","y">>,
           <<"D","E">>, <<"D","e","u","t","s","c","h","l","a","n","d">> }

\* Locations _infer_country_from_location is asked about.
Locations ==
    { <<"B","r","i","t","i","s","h"," ","E","m","b","a","s","s","y"," ","P","a","r","i","s">>, <<"P","A","R","I","S">>, <<"p","a","r","i","s">>, <<"B","e","r","l","i","n"," ","a","n","d"," ","P","a","r","i","s">>,
      <<"P","a","r","i","s"," ","a","n","d"," ","B","e","r","l","i","n">>, <<"B","E","R","L","I","N"," ","P","A","R","I","S">>, <<"R","o","m","e","o"," ","B","a","r","r","a","c","k","s">>, <<"L","i","m","a","s","s","o","l">>,
      <<"O","s","l","o">>, <<"R","o","m","e"," ","O","s","l","o"," ","L","i","m","a">>, <<"K","A","B","U","L"," ","o","f","f","i","c","e">>, <<"K","a","b","u","l">>, <<"O","t","t","a","w","a">>,
      <<"O","T","T","A","W","A">>, <<"N","e","w"," ","Y","o","r","k">>, <<"N","E","W"," "," ","Y","O","R","K">>, <<"W","a","s","h","i","n","g","t","o","n"," ","D","C">>, <<"A","b","u"," ","D","h","a","b","i">>,
      <<"D","u","b","a","i"," ","a","n","d"," ","A","b","u"," ","D","h","a","b","i">>, <<"D","e","p","o","t">>, <<"H","Q">>, <<"D","e","n"," ","H","e","l","d","e","r">>, <<"P","a","r"," ","i","s">>, <<>> }

\* The columns a DataFrame may hold and the sets of them.
AllColumns == { <<Bases[b], i>> : b \in 1..3, i \in 0..MaxGroup }

ColumnSets == SUBSET AllColumns

runVars == << pc, response, anyHeading, addresses, scraped, fcdo_ods_file, ods_file,
              cleanup_temp, odsStatus, written, xml, stats >>

Pending(op, arg) == [op |-> op, arg |-> arg, done |-> FALSE, result |-> None]

\* An operation is about to be called on an argument; no run() is under way.
CallInit ==
    /\ pc = "call"
    /\ response = "none"
    /\ anyHeading = FALSE
    /\ addresses = <<>>
    /\ scraped = <<>>
    /\ fcdo_ods_file = None
    /\ ods_file = None
    /\ cleanup_temp = FALSE
    /\ odsStatus = "none"
    /\ written = FALSE
    /\ xml = <<>>
    /\ stats = [total_with_country |-> 0, total_with_code |-> 0,
                unmapped_countries |-> {}]
    /\ \/ call \in { Pending("validate_country_code", c) : c \in Codes }
       \/ call \in { Pending("get_country_code", n) : n \in CountryNames }
       \/ call \in { Pending("infer_country_from_location", l) : l \in Locations }
       \/ call \in { Pending("column_groups", c) : c \in ColumnSets }

\* CountryCodeResolver.validate_country_code(code) returns.
CallValidateCountryCode ==
    /\ call.op = "validate_country_code"
    /\ ~call.done
    /\ \E on_missing \in MissingCode :
          call' = [call EXCEPT !.done = TRUE,
                               !.result = validate_country_code(call.arg, on_missing)]
    /\ UNCHANGED runVars

\* CountryCodeResolver.get_country_code(country_name) returns.
CallGetCountryCode ==
    /\ call.op = "get_country_code"
    /\ ~call.done
    /\ call' = [call EXCEPT !.done = TRUE, !.result = get_country_code(call.arg)]
    /\ UNCHANGED runVars

\* _infer_country_from_location(location) returns.
CallInferCountryFromLocation ==
    /\ call.op = "infer_country_from_location"
    /\ ~call.done
    /\ call' = [call EXCEPT !.done = TRUE,
                            !.result = infer_country_from_location(call.arg)]
    /\ UNCHANGED runVars

\* parse_fcdo_ods has identified the column groups of df.columns.
CallColumnGroups ==
    /\ call.op = "column_groups"
    /\ ~call.done
    /\ call' = [call EXCEPT !.done = TRUE, !.result = column_groups(call.arg)]
    /\ UNCHANGED runVars

CallNext ==
    \/ CallValidateCountryCode
    \/ CallGetCountryCode
    \/ CallInferCountryFromLocation
    \/ CallColumnGroups

CallSpec == CallInit /\ [][CallNext]_vars

\* ------------------------------------------------------------------ claims

Has(r, k) == k \in DOMAIN r

Records == { addresses[i] : i \in 1..Len(addresses) }

\* The text of BfpoNum after the "BFPO " prefix is taken out, as the sort
\* reads it.
Remainder(r) == strip(replace(r["BfpoNum"], BFPO_SP, <<>>))

Count(s, x) == Cardinality({ i \in 1..Len(s) : s[i] = x })

\* s and t hold the same elements, each as often.
IsPermutation(s, t) ==
    /\ Len(s) = Len(t)
    /\ \A i \in 1..Len(s) : Count(s, s[i]) = Count(t, s[i])

\* The record an element's children spell: tag -> text.
ElementRecord(e) ==
    [k \in { e[i][1] : i \in 1..Len(e) } |->
        e[CHOOSE i \in 1..Len(e) : e[i][1] = k][2]]

OptionalKeys == {"BoxNum", "PstCd", "Ctry", "CtryCd"}

Unavailable == {"skipped", "not found", "unreadable"}

\* C1 (as claimed): every record's BfpoNum starts with exactly "BFPO "
\* (upper case, one space) and what follows does not carry the prefix a
\* second time, whatever the raw number's letter case was.
C1_BfpoNumStartsWithPrefix ==
    \A r \in Records :
        /\ startswith(r["BfpoNum"], BFPO_SP)
        /\ ~startswith(upper(SubSeq(r["BfpoNum"], 6, Len(r["BfpoNum"]))), BFPO)

\* C2 (as claimed): once generate_xml has sorted the collection, every
\* record with a purely numeric remainder comes before every record with
\* another remainder, and the numeric ones ascend, also from 999 upwards.
C2_NumericAscendingThenOthers ==
    written =>
        \A i, j \in 1..Len(addresses) :
            (i < j /\ isdigit(Remainder(addresses[j]))) =>
                /\ isdigit(Remainder(addresses[i]))
                /\ int(Remainder(addresses[i])) <= int(Remainder(addresses[j]))

\* C3: a record with a CtryCd has a Ctry, and the CtryCd is what resolving
\* that Ctry yields, which is not absent; a record whose Ctry does not
\* resolve has no CtryCd; and the reported count of records with a code is
\* at most the reported count of records with a country name.
C3_CodeOnlyFromResolvedCountry ==
    /\ \A r \in Records :
          /\ Has(r, "CtryCd") =>
                /\ Has(r, "Ctry")
                /\ get_country_code(r["Ctry"]) # None
                /\ r["CtryCd"] = get_country_code(r["Ctry"])
          /\ (Has(r, "Ctry") /\ get_country_code(r["Ctry"]) = None) => ~Has(r, "CtryCd")
    /\ stats.total_with_code <= stats.total_with_country
    /\ written =>
          /\ stats.total_with_country =
                Cardinality({i \in 1..Len(addresses) : Has(addresses[i], "Ctry")})
          /\ stats.total_with_code =
                Cardinality({i \in 1..Len(addresses) : Has(addresses[i], "CtryCd")})

\* C3's case: the run has ended with a record whose country resolved and a
\* record whose country did not.
C3_Witness ==
    /\ pc = "done"
    /\ \E r \in Records : Has(r, "CtryCd")
    /\ \E r \in Records : Has(r, "Ctry") /\ ~Has(r, "CtryCd")
    /\ stats.total_with_code < stats.total_with_country

\* C4 (as claimed): a detachment record has a BoxNum and the postcode
\* "BF1 0AX", also when the box-number cell was empty; no other record has
\* a BoxNum.
C4_DetachmentHasBoxAndPostcode ==
    \A r \in Records :
        IF r["Type"] = T_detachment
        THEN /\ Has(r, "BoxNum")
             /\ Has(r, "PstCd")
             /\ r["PstCd"] = ISOLATED_DETACHMENT_POSTCODE
        ELSE ~Has(r, "BoxNum")

\* C5: every optional field a record holds is a non-empty string, so is the
\* text of every optional element written, and a record that got neither a
\* postcode nor a country holds exactly BfpoNum, Loc and Type.
C5_OptionalFieldsNonEmpty ==
    /\ \A r \in Records :
          /\ \A k \in OptionalKeys \cap DOMAIN r : Truthy(r[k])
          /\ (~Has(r, "PstCd") /\ ~Has(r, "Ctry")) => DOMAIN r = {"BfpoNum", "Loc", "Type"}
    /\ \A i \in 1..Len(xml) : \A c \in 1..Len(xml[i]) :
          xml[i][c][1] \in OptionalKeys => Truthy(xml[i][c][2])

\* C5's case: the document is written from a record built from an empty
\* postcode cell and no country, and from a record that has a postcode.
C5_Witness ==
    /\ written
    /\ \E r \in Records : DOMAIN r = {"BfpoNum", "Loc", "Type"}
    /\ \E i \in 1..Len(xml) : \E c \in 1..Len(xml[i]) : xml[i][c][1] = "PstCd"

\* C6: once the page fetch has failed, the run is in its error outcome and
\* stays there: nothing was collected, the spreadsheet was neither
\* downloaded nor parsed, and no document is written.
C6_FetchFailureIsFatal ==
    response = "failed" =>
        /\ pc = "error"
        /\ ~written
        /\ xml = <<>>
        /\ addresses = <<>>
        /\ ods_file = None
        /\ odsStatus = "none"

\* C6's case: the fetch failed.
C6_Witness == response = "failed" /\ pc = "error"

\* The steps of run() in the order it takes them; every step moves on in
\* this order, so a run is at most this many steps long.
PcOrder ==
    << "fetch", "germany", "uk", "europe", "world", "ships", "naval", "operations",
       "exercises", "detachments", "scraped", "select", "check", "generate", "done",
       "error" >>

Rank(p) == CHOOSE i \in 1..Len(PcOrder) : PcOrder[i] = p

\* C7: once the page is fetched the run never takes the error outcome and,
\* until it is done, always has its next step to take, each step moving on
\* in the order of run(): it ends done with the document written, whatever
\* becomes of the spreadsheet.  When the spreadsheet was unavailable (not
\* downloaded, not found, unreadable) the document holds exactly the
\* records scraped from the page.
C7_SpreadsheetFailureTolerated ==
    /\ [](response = "ok" =>
            /\ pc # "error"
            /\ IF pc = "done" THEN written ELSE ENABLED Next)
    /\ [][Rank(pc') > Rank(pc)]_vars
    /\ []((pc = "done" /\ odsStatus \in Unavailable) =>
            IsPermutation(xml, [i \in 1..Len(scraped) |-> address_element(scraped[i])]))

\* C7's case: the run ended although reading the spreadsheet raised, and it
\* wrote the scraped records.
C7_Witness ==
    /\ pc = "done"
    /\ odsStatus = "unreadable"
    /\ written
    /\ Len(xml) = MaxAddrs

\* C8 (as claimed): when the page is fetched and none of the nine sections
\* is found on it, no document is written.
C8_NoSectionFoundAborts == written => anyHeading

\* C8 (amended): when the page is fetched and none of the nine sections is
\* found on it, the run does not abort: the scrape ends with no record, the
\* run still has its next step to take until it is done, and it is done
\* with the document written, which holds spreadsheet records only.
C8_NoSectionFoundStillWrites ==
    (response = "ok" /\ ~anyHeading) =>
        /\ pc # "error"
        /\ scraped = <<>>
        /\ pc \notin {"generate", "done"} => addresses = <<>>
        /\ IF pc = "done" THEN written ELSE ENABLED Next
        /\ \A i \in 1..Len(xml) : ElementRecord(xml[i])["Type"] = T_fcdo

\* C8's case: no section was found and the document is written, with a
\* spreadsheet record in it.
C8_Witness == pc = "done" /\ written /\ ~anyHeading /\ Len(xml) > 0

\* C9 (as claimed): a row whose BFPO-number or location cell is empty
\* produces no record, in a section of the page as in the spreadsheet: no
\* record has an empty Loc or a BfpoNum that is the bare prefix.
C9_MalformedRowGivesNoRecord ==
    \A r \in Records :
        /\ r["Loc"] # <<>>
        /\ r["BfpoNum"] # BFPO_SP
        /\ r["BfpoNum"] # <<>>

\* C10: a step that is not generate_xml only appends to the collection and
\* leaves the document alone; generate_xml writes one element per record,
\* the elements a permutation of the records collected, each element
\* spelling all the fields of its record, duplicates included.
C10_OutputIsPermutation ==
    [][ IF pc = "generate"
        THEN /\ IsPermutation(addresses', addresses)
             /\ Len(xml') = Len(addresses)
             /\ IsPermutation([i \in 1..Len(xml') |-> ElementRecord(xml'[i])], addresses)
             /\ \A i \in 1..Len(xml') : ElementRecord(xml'[i]) = addresses'[i]
        ELSE /\ Len(addresses') >= Len(addresses)
             /\ SubSeq(addresses', 1, Len(addresses)) = addresses
             /\ xml' = xml ]_vars

\* C10's case: the document holds two elements with the same BfpoNum and
\* Loc.
C10_Witness ==
    /\ written
    /\ \E i, j \in 1..Len(xml) :
          /\ i < j
          /\ ElementRecord(xml[i])["BfpoNum"] = ElementRecord(xml[j])["BfpoNum"]
          /\ ElementRecord(xml[i])["Loc"] = ElementRecord(xml[j])["Loc"]

\* The operation op was called on its own and has returned.
Returned(op) == call.op = op /\ call.done

\* C11 (as claimed): validate_country_code returns true exactly for a code
\* of two characters that is a value of SPECIAL_CASES or, in upper case, an
\* alpha-2 code of the catalog; for a two-character string in neither it
\* returns false.
C11_ValidExactlyWhenKnownCode ==
    Returned("validate_country_code") =>
        (call.result <=>
            /\ Truthy(call.arg)
            /\ Len(call.arg) = 2
            /\ \/ \E i \in 1..Len(SPECIAL_CASES) : SPECIAL_CASES[i][2] = call.arg
               \/ \E i \in 1..Len(Countries) : Countries[i][3] = upper(call.arg))

\* C12: get_country_code returns what the first matching step gives, the
\* steps being in this order: SPECIAL_CASES, the exact name, the top fuzzy
\* candidate, the common name in upper, lower or title case; an absent or
\* empty name, and a name no step matches, give None.  So "Holland" gives
\* "NL", "Germany" gives "DE" and "Not-A-Real-Country" gives None.
C12_FirstMatchingStepWins ==
    Returned("get_country_code") =>
        LET n == call.arg
            r == call.result
            variations == << upper(n), lower(n), title(n) >>
            hits == {i \in 1..3 : countries_get_common_name(variations[i]) # None}
        IN  /\ IF ~Truthy(n) THEN r = None
               ELSE IF \E i \in 1..Len(SPECIAL_CASES) : SPECIAL_CASES[i][1] = n
                    THEN \E i \in 1..Len(SPECIAL_CASES) :
                            SPECIAL_CASES[i][1] = n /\ SPECIAL_CASES[i][2] = r
               ELSE IF countries_get_name(n) # None THEN r = countries_get_name(n)
               ELSE IF countries_search_fuzzy(n) # None THEN r = countries_search_fuzzy(n)
               ELSE IF hits # {}
                    THEN \E i \in hits :
                            /\ \A j \in hits : i <= j
                            /\ r = countries_get_common_name(variations[i])
               ELSE r = None
            /\ n = <<"H","o","l","l","a","n","d">> => r = <<"N","L">>
            /\ n = <<"G","e","r","m","a","n","y">> => r = <<"D","E">>
            /\ n = <<"N","o","t","-","A","-","R","e","a","l","-","C","o","u","n","t","r","y">> => r = None

\* C12's case: a key of SPECIAL_CASES that the fuzzy search of the catalog
\* also answers, with another code, was resolved to the SPECIAL_CASES value.
C12_Witness ==
    /\ Returned("get_country_code")
    /\ call.arg = <<"A","f","r","i","c","a">>
    /\ call.result = <<"A","F">>
    /\ countries_search_fuzzy(call.arg) \notin {None, call.result}

\* C13: _infer_country_from_location returns the country of the first
\* entry of the table whose key occurs in the lower-cased location, None
\* exactly when no key occurs, and the same for the location in upper and
\* in lower case.
C13_FirstTableEntryWins ==
    Returned("infer_country_from_location") =>
        LET l == lower(call.arg)
            hits == {i \in 1..Len(country_patterns) : contains(l, country_patterns[i][1])}
        IN  /\ (call.result = None) <=> (hits = {})
            /\ \A i \in hits :
                  (\A j \in hits : i <= j) => call.result = country_patterns[i][2]
            /\ call.result = infer_country_from_location(upper(call.arg))
            /\ call.result = infer_country_from_location(l)

\* C13's case: two keys occur in the location, the one that comes later in
\* the text being the earlier in the table, and its country was returned.
C13_Witness ==
    /\ Returned("infer_country_from_location")
    /\ call.arg = <<"B","e","r","l","i","n"," ","a","n","d"," ","P","a","r","i","s">>
    /\ call.result = <<"F","r","a","n","c","e">>

\* Whether columns holds the three columns of group i.
Complete(columns, i) ==
    /\ <<"Location", i>> \in columns
    /\ <<"BFPO No", i>> \in columns
    /\ <<"Postcode", i>> \in columns

\* C14: the numbered group k >= 1 is among the groups read if and only if
\* each of the groups 1..k has its three columns; the unsuffixed group is
\* among them if and only if it has its three columns, whatever the
\* numbered groups have; the groups are read in ascending order, each once.
C14_ScanStopsAtFirstGap ==
    Returned("column_groups") =>
        LET read == { call.result[j] : j \in 1..Len(call.result) }
        IN  /\ read \subseteq 0..MaxGroup
            /\ \A k \in 1..MaxGroup :
                  k \in read <=> \A i \in 1..k : Complete(call.arg, i)
            /\ 0 \in read <=> Complete(call.arg, 0)
            /\ \A i, j \in 1..Len(call.result) :
                  i < j => call.result[i] < call.result[j]

\* C14's case: group 1 lacks a column and a later group is complete; only
\* the unsuffixed group was read.
C14_Witness ==
    /\ Returned("column_groups")
    /\ Complete(call.arg, 0)
    /\ ~Complete(call.arg, 1)
    /\ Complete(call.arg, MaxGroup)
    /\ call.result = <<0>>
====
